---- MODULE Spec2Model ----
(***************************************************************************)
(* The undo accumulator of the BetterUndo extension (src/src/extension.ts,  *)
(* the variant of lines 245-522): the undoPressed command, the 200 ms       *)
(* stop-timer, the settings commands and the audio sink.                    *)
(*                                                                          *)
(* Time is in milliseconds, as Date.now() gives it.  Settings are held in   *)
(* fixed point with three decimals: the model's assistanceDelay = 800 is    *)
(* the code's 0.8 (seconds), so the code's assistanceDelay * 1000 is the    *)
(* model's number itself (DelayThreshold).  The clock is monotone, and a    *)
(* timer whose time has come runs before the clock moves on (node runs the  *)
(* timers that are due at the start of every turn of its event loop).       *)
(***************************************************************************)
EXTENDS Integers, Sequences, FiniteSets, TLC

VARIABLES
    now,             \* Date.now()
    threshold,       \* let threshold (258)
    last,            \* let last (259)
    isPlaying,       \* let isPlaying (252)
    audio,           \* let audio (251): Null or the player's child process
    endSongTimeout,  \* let endSongTimeout (262): Null or a timer handle
    volume,          \* let volume (255)
    assistanceDelay, \* let assistanceDelay (256)
    config,          \* the host's persisted betterundo.* configuration
    timers,          \* the event loop's pending timers: [id, due]
    procs,           \* the player processes that are running
    version,         \* document.version of the active editor's document
    history,         \* depth of the editor's undo stack
    inflight,        \* undoPressed invocations awaiting executeCommand("undo")
    active,          \* FALSE once deactivate has run
    message,         \* observer: the message the last step showed the user
    entered,         \* observer: the input box's result in the last step
    sinkState,       \* observer: "started" when the sink's last command was a start
    issued,          \* observer: the sink commands issued by the last step
    killError,       \* observer: kill was called on a null handle
    burstStart,      \* observer: time of the first qualifying event since the last reset
    scen,            \* observer: progress through the 0/400/900 ms scenario
    step             \* observer: the handler that ran last

vars == <<now, threshold, last, isPlaying, audio, endSongTimeout, volume,
          assistanceDelay, config, timers, procs, version, history, inflight,
          active, message, entered, sinkState, issued, killError, burstStart, scen,
          step>>

Null == 0

\* ------------------------------------------------------------------ bounds
TickMs == 100
MaxTime == 1200
MaxHistory == 3
MaxInflight == 2

\* ------------------------------------------------------------------ constants
StopDelay == 200

DefaultVolume == 500

DefaultDelay == 800

MaxVolume == 1000

MaxDelaySetting == 5000

\* The accumulator and the sink as one record, so that the code's functions
\* are operators from state to state.
Cur ==
    [threshold |-> threshold, last |-> last, isPlaying |-> isPlaying,
     audio |-> audio, endSongTimeout |-> endSongTimeout, timers |-> timers,
     procs |-> procs, sinkState |-> sinkState, issued |-> <<>>,
     killError |-> killError]

Commit(s) ==
    /\ threshold' = s.threshold
    /\ last' = s.last
    /\ isPlaying' = s.isPlaying
    /\ audio' = s.audio
    /\ endSongTimeout' = s.endSongTimeout
    /\ timers' = s.timers
    /\ procs' = s.procs
    /\ sinkState' = s.sinkState
    /\ issued' = s.issued
    /\ killError' = s.killError

Min(a, b) == IF a <= b THEN a ELSE b

Max(a, b) == IF a >= b THEN a ELSE b

\* A handle no live object has: the smallest positive number not in used.
Fresh(used) == CHOOSE n \in 1..(Cardinality(used) + 1) : n \notin used

\* assistanceDelay * 1000 (382, 388)
DelayThreshold == assistanceDelay

\* ------------------------------------------------------------------ audio sink

\* playSound (474-496): a new player process, its handle stored in audio.
playSound(s) ==
    LET p == Fresh(s.procs \cup {s.audio})
    IN  [s EXCEPT !.audio = p,
                  !.procs = @ \cup {p},
                  !.sinkState = "started",
                  !.issued = Append(@, "start")]

\* stopSound without its guard: kill is called on whatever audio holds.
stopSoundUnguarded(s) ==
    [s EXCEPT !.sinkState = "stopped",
              !.issued = @ \o <<"stop", "kill">>,
              !.killError = @ \/ s.audio = Null,
              !.procs = @ \ {s.audio},
              !.audio = Null]

\* stopSound (498-505): kill the player if there is a handle, and drop it.
\* issued gets "stop" for the call and "kill" for the process it ended.
stopSound(s) ==
    LET t == [s EXCEPT !.sinkState = "stopped", !.issued = Append(@, "stop")]
    IN  IF t.audio # Null
        THEN [t EXCEPT !.procs = @ \ {t.audio},
                       !.audio = Null,
                       !.issued = Append(@, "kill")]
        ELSE t

\* stopPlaying that forgets to zero the threshold.
stopPlayingKeepsThreshold(s) ==
    [stopSound(s) EXCEPT !.isPlaying = FALSE, !.last = 0]

\* stopPlaying (423-429)
stopPlaying(s) ==
    [stopSound(s) EXCEPT !.isPlaying = FALSE, !.threshold = 0, !.last = 0]

\* ------------------------------------------------------------------ undoPressed

\* Accumulate without the first sample: last stays 0 in a new burst.
AccumulateNoFirstSample(s, t) ==
    LET a == IF s.threshold < 0 THEN [s EXCEPT !.threshold = 0] ELSE s
        timeDiff == t - a.last
    IN  [a EXCEPT !.threshold = @ + timeDiff]

\* Accumulate with the difference taken the wrong way round.
AccumulateReversed(s, t) ==
    LET a == IF s.threshold < 0 THEN [s EXCEPT !.threshold = 0] ELSE s
        b == IF a.last = 0 THEN [a EXCEPT !.last = t] ELSE a
        timeDiff == b.last - t
    IN  [b EXCEPT !.threshold = @ + timeDiff]

\* 373-380: clamp, take the first sample, add the time since last.
Accumulate(s, t) ==
    LET a == IF s.threshold < 0 THEN [s EXCEPT !.threshold = 0] ELSE s
        b == IF a.last = 0 THEN [a EXCEPT !.last = t] ELSE a
        timeDiff == t - b.last
    IN  [b EXCEPT !.threshold = @ + timeDiff]

\* StartIfReached without the isPlaying guard.
StartIfReachedAlways(s, limit) ==
    IF s.threshold >= limit
    THEN playSound([s EXCEPT !.isPlaying = TRUE])
    ELSE s

\* 388-396: start the song once the threshold is reached, unless it plays.
StartIfReached(s, limit) ==
    IF s.threshold >= limit /\ ~s.isPlaying
    THEN playSound([s EXCEPT !.isPlaying = TRUE])
    ELSE s

\* clearTimeout that cancels nothing.
clearTimeoutNothing(s, h) == s

\* clearTimeout (400): a handle whose timer has run, or Null, cancels nothing.
clearTimeout(s, h) ==
    [s EXCEPT !.timers = {tm \in @ : tm.id # h}]

\* ArmStopTimer with a window ten times as long.
ArmStopTimerLate(s, t) ==
    LET c == IF s.endSongTimeout # Null THEN clearTimeout(s, s.endSongTimeout) ELSE s
        h == Fresh({tm.id : tm \in c.timers})
    IN  [c EXCEPT !.timers = @ \cup {[id |-> h, due |-> t + 10 * StopDelay]},
                  !.endSongTimeout = h]

\* 399-404: cancel the pending stop-timer and arm a new one.
ArmStopTimer(s, t) ==
    LET c == IF s.endSongTimeout # Null THEN clearTimeout(s, s.endSongTimeout) ELSE s
        h == Fresh({tm.id : tm \in c.timers})
    IN  [c EXCEPT !.timers = @ \cup {[id |-> h, due |-> t + StopDelay]},
                  !.endSongTimeout = h]

\* 372-406: the branch of an undo that changed the document.
undoChanged(s, t, limit) ==
    ArmStopTimer(StartIfReached(Accumulate(s, t), limit), t)

\* undoNotChanged that forgets to zero last.
undoNotChangedKeepsLast(s) ==
    LET a == IF s.isPlaying THEN stopPlaying(s) ELSE s
    IN  [a EXCEPT !.threshold = 0]

\* 407-414: the branch of an undo that left the document as it was.
undoNotChanged(s) ==
    LET a == IF s.isPlaying THEN stopPlaying(s) ELSE s
    IN  [a EXCEPT !.threshold = 0, !.last = 0]

\* ------------------------------------------------------------------ settings

\* A JavaScript number: NaN, or the value val.
Num(v) == [nan |-> FALSE, val |-> v]

NaN == [nan |-> TRUE, val |-> 0]

isNaNNever(x) == FALSE

isNaN(x) == x.nan

\* parseFloat (304, 334) on the texts the model submits: the longest numeric
\* prefix, NaN when there is none.
parseFloat(text) ==
    CASE text = "-1"   -> Num(-1000)
      [] text = "0"    -> Num(0)
      [] text = "0.3"  -> Num(300)
      [] text = "0.5"  -> Num(500)
      [] text = "0.8"  -> Num(800)
      [] text = "2"    -> Num(2000)
      [] text = "10"   -> Num(10000)
      [] text = "1x"   -> Num(1000)
      [] OTHER         -> NaN

\* Math.max(0, Math.min(1, newVolume)) (306)
ClampVolume(v) == Max(0, Min(MaxVolume, v))

\* Math.max(0, Math.min(5, newDelay)) (336)
ClampDelayNoCeiling(d) == Max(0, d)

ClampDelay(d) == Max(0, Min(MaxDelaySetting, d))

\* updateSettings (431-439): both values are read from the configuration.
updateSettings(cfg) ==
    /\ volume' = cfg.volume
    /\ assistanceDelay' = cfg.assistanceDelay

\* ------------------------------------------------------------------ inputs

Undefined == "undefined"

\* What the user types into the input box of setVolume and of setDelay;
\* Undefined is the dismissed box (303, 333).
VolumeTexts == {Undefined, "abc", "-1", "0.5", "2"}

DelayTexts == {Undefined, "abc", "-1", "0.3", "10", "1x"}

\* Values written to the settings file by hand: nothing clamps them.
EditedVolumes == {-1000, 2000}

EditedDelays == {-1000, 300, 10000}

\* The settings changes of Spec, where every change multiplies the timed runs
\* of the accumulator: the delays 0 (typed as -1) and 0.3 besides the default.
CoreDelayTexts == {"-1"}

CoreEditedDelays == {300}

\* ------------------------------------------------------------------ state machine

Init ==
    /\ now = TickMs
    /\ threshold = 0
    /\ last = 0
    /\ isPlaying = FALSE
    /\ audio = Null
    /\ endSongTimeout = Null
    /\ config = [volume |-> DefaultVolume, assistanceDelay |-> DefaultDelay]
    /\ volume = DefaultVolume
    /\ assistanceDelay = DefaultDelay
    /\ timers = {}
    /\ procs = {}
    /\ version = 1
    /\ history = MaxHistory
    /\ inflight = <<>>
    /\ active = TRUE
    /\ message = "none"
    /\ entered = Undefined
    /\ sinkState = "stopped"
    /\ issued = <<>>
    /\ killError = FALSE
    /\ burstStart = 0
    /\ scen = [n |-> 0, t0 |-> 0, th |-> 0, pl |-> FALSE]
    /\ step = "activate"

\* The environment raises no new event so late that the stop-timer it arms
\* would fall beyond the model's horizon.
Open == now + StopDelay <= MaxTime

AccUnchanged ==
    UNCHANGED <<threshold, last, isPlaying, audio, endSongTimeout, timers, procs,
                sinkState, killError, burstStart, scen>>

\* Time passes; a timer that is due runs first.
Tick ==
    /\ now < MaxTime
    /\ \A tm \in timers : tm.due > now
    /\ now' = now + TickMs
    /\ step' = "tick"
    /\ issued' = <<>>
    /\ AccUnchanged
    /\ message' = "none"
    /\ entered' = Undefined
    /\ UNCHANGED <<volume, assistanceDelay, config, version, history, inflight, active>>

\* undoPressed without the return of 360-362.
UndoPressedNoGuard(editor) ==
    /\ active
    /\ Open
    /\ Len(inflight) < MaxInflight
    /\ step' = IF editor THEN "undoAwait" ELSE "undoNoEditor"
    /\ inflight' = Append(inflight, [initialVersion |-> version, done |-> FALSE,
                                   ownChanged |-> FALSE])
    /\ issued' = <<>>
    /\ AccUnchanged
    /\ message' = "none"
    /\ entered' = Undefined
    /\ UNCHANGED <<now, volume, assistanceDelay, config, version, history, active>>

\* betterundo.undoPressed up to its await (357-367).
UndoPressed(editor) ==
    /\ active
    /\ Open
    /\ Len(inflight) < MaxInflight
    /\ IF ~editor
       THEN /\ step' = "undoNoEditor"
            /\ UNCHANGED inflight
       ELSE /\ step' = "undoAwait"
            /\ inflight' = Append(inflight, [initialVersion |-> version, done |-> FALSE,
                                          ownChanged |-> FALSE])
    /\ issued' = <<>>
    /\ AccUnchanged
    /\ message' = "none"
    /\ entered' = Undefined
    /\ UNCHANGED <<now, volume, assistanceDelay, config, version, history, active>>

\* The host runs the oldest requested undo command (367): one entry of the
\* undo stack is undone, which gives the document a new version, or the
\* stack is empty and nothing changes.
HostUndo ==
    /\ Open
    /\ \E i \in 1..Len(inflight) :
        /\ ~inflight[i].done
        /\ \A j \in 1..(i - 1) : inflight[j].done
        /\ inflight' = [inflight EXCEPT ![i].done = TRUE,
                                        ![i].ownChanged = history > 0]
    /\ IF history > 0
       THEN history' = history - 1 /\ version' = version + 1
       ELSE UNCHANGED <<history, version>>
    /\ step' = "hostUndo"
    /\ issued' = <<>>
    /\ AccUnchanged
    /\ message' = "none"
    /\ entered' = Undefined
    /\ UNCHANGED <<now, volume, assistanceDelay, config, active>>

\* The 0/400/900 ms scenario, followed on the qualifying events of the run.
ScenAfterEvent(s) ==
    LET seen == [scen EXCEPT !.th = s.threshold, !.pl = s.isPlaying]
        void == [n |-> 4, t0 |-> 0, th |-> 0, pl |-> FALSE]
    IN  CASE scen.n >= 3 -> scen
          [] assistanceDelay # DefaultDelay -> void
          [] scen.n = 0 -> [seen EXCEPT !.n = 1, !.t0 = now]
          [] scen.n = 1 /\ now = scen.t0 + 400 -> [seen EXCEPT !.n = 2]
          [] scen.n = 2 /\ now = scen.t0 + 900 -> [seen EXCEPT !.n = 3]
          [] OTHER -> void

ScenBroken ==
    IF scen.n \in 1..2 THEN [n |-> 4, t0 |-> 0, th |-> 0, pl |-> FALSE] ELSE scen

\* betterundo.undoPressed after its await (369-414).
UndoResume ==
    /\ Open
    /\ inflight # <<>>
    /\ Head(inflight).done
    /\ inflight' = Tail(inflight)
    /\ LET documentChanged == version # Head(inflight).initialVersion
       IN  IF documentChanged
           THEN LET s == undoChanged(Cur, now, DelayThreshold)
                IN  /\ Commit(s)
                    /\ burstStart' = IF burstStart = 0 THEN now ELSE burstStart
                    /\ scen' = ScenAfterEvent(s)
                    /\ step' = "undoChanged"
           ELSE /\ Commit(undoNotChanged(Cur))
                /\ burstStart' = 0
                /\ scen' = ScenBroken
                /\ step' = "undoNotChanged"
    /\ message' = "none"
    /\ entered' = Undefined
    /\ UNCHANGED <<now, volume, assistanceDelay, config, version, history, active>>

\* The stop-timer's callback (402-404).
StopTimerFires ==
    /\ \E tm \in timers :
        /\ now >= tm.due
        /\ Commit(stopPlaying([Cur EXCEPT !.timers = @ \ {tm}]))
    /\ burstStart' = 0
    /\ step' = "stopTimer"
    /\ message' = "none"
    /\ entered' = Undefined
    /\ UNCHANGED <<now, volume, assistanceDelay, config, version, history, inflight,
                   active, scen>>

\* betterundo.setVolume (298-323)
SetVolume(result) ==
    /\ active
    /\ Open
    /\ IF result # Undefined
       THEN LET newVolume == parseFloat(result)
            IN  IF ~isNaN(newVolume)
                THEN /\ config' = [config EXCEPT !.volume = ClampVolume(newVolume.val)]
                     /\ updateSettings(config')
                     /\ message' = "info"
                ELSE /\ message' = "error"
                     /\ UNCHANGED <<config, volume, assistanceDelay>>
       ELSE /\ message' = "none"
            /\ UNCHANGED <<config, volume, assistanceDelay>>
    /\ step' = "setVolume"
    /\ entered' = result
    /\ issued' = <<>>
    /\ AccUnchanged
    /\ UNCHANGED <<now, version, history, inflight, active>>

\* betterundo.setDelay (328-353)
SetDelay(result) ==
    /\ active
    /\ Open
    /\ IF result # Undefined
       THEN LET newDelay == parseFloat(result)
            IN  IF ~isNaN(newDelay)
                THEN /\ config' = [config EXCEPT !.assistanceDelay = ClampDelay(newDelay.val)]
                     /\ updateSettings(config')
                     /\ message' = "info"
                ELSE /\ message' = "error"
                     /\ UNCHANGED <<config, volume, assistanceDelay>>
       ELSE /\ message' = "none"
            /\ UNCHANGED <<config, volume, assistanceDelay>>
    /\ step' = "setDelay"
    /\ entered' = result
    /\ issued' = <<>>
    /\ AccUnchanged
    /\ UNCHANGED <<now, version, history, inflight, active>>

\* onDidChangeConfiguration (286-293) after the settings were edited by hand.
ConfigEdited(key, val) ==
    /\ active
    /\ Open
    /\ config' = [config EXCEPT ![key] = val]
    /\ updateSettings(config')
    /\ step' = "configEdited"
    /\ issued' = <<>>
    /\ AccUnchanged
    /\ message' = "none"
    /\ entered' = Undefined
    /\ UNCHANGED <<now, version, history, inflight, active>>

\* The player process ends and play's callback runs (488-495).
PlayerExit(err) ==
    /\ \E p \in procs : procs' = procs \ {p}
    /\ message' = IF err THEN "error" ELSE "none"
    /\ entered' = Undefined
    /\ step' = "playerExit"
    /\ issued' = <<>>
    /\ UNCHANGED <<threshold, last, isPlaying, audio, endSongTimeout, timers,
                   sinkState, killError, burstStart, scen>>
    /\ UNCHANGED <<now, volume, assistanceDelay, config, version, history, inflight, active>>

\* deactivate (507-512)
Deactivate ==
    /\ active
    /\ active' = FALSE
    /\ Commit(IF isPlaying THEN stopSound(Cur) ELSE Cur)
    /\ scen' = ScenBroken
    /\ step' = "deactivate"
    /\ message' = "none"
    /\ entered' = Undefined
    /\ UNCHANGED <<now, volume, assistanceDelay, config, version, history, inflight,
                   burstStart>>

\* The accumulator in time: undo events with an editor, the stop-timer, the
\* player, changes of assistanceDelay and deactivation.
Next ==
    \/ Tick
    \/ UndoPressed(TRUE)
    \/ HostUndo
    \/ UndoResume
    \/ StopTimerFires
    \/ \E result \in CoreDelayTexts : SetDelay(result)
    \/ \E val \in CoreEditedDelays : ConfigEdited("assistanceDelay", val)
    \/ \E err \in BOOLEAN : PlayerExit(err)
    \/ Deactivate

Spec == Init /\ [][Next]_vars

\* The commands at one instant, with every kind of input: with and without an
\* editor, every text of the input boxes, settings edited by hand.
NextInputs ==
    \/ \E editor \in BOOLEAN : UndoPressed(editor)
    \/ HostUndo
    \/ UndoResume
    \/ \E result \in VolumeTexts : SetVolume(result)
    \/ \E result \in DelayTexts : SetDelay(result)
    \/ \E val \in EditedVolumes : ConfigEdited("volume", val)
    \/ \E val \in EditedDelays : ConfigEdited("assistanceDelay", val)

InputSpec == Init /\ [][NextInputs]_vars

\* The event loop runs a timer that is due, and time passes.
FairSpec == Spec /\ WF_vars(Tick) /\ WF_vars(StopTimerFires)

\* ------------------------------------------------------------------ claims

\* The last step issued command c to the audio sink.
Issued(c) == \E i \in 1..Len(issued) : issued[i] = c

\* A step that is the continuation of an undoPressed whose undo changed the
\* document, resp. left document.version as it was.
ChangedResume ==
    /\ Len(inflight') < Len(inflight)
    /\ version # Head(inflight).initialVersion

NotChangedResume ==
    /\ Len(inflight') < Len(inflight)
    /\ version = Head(inflight).initialVersion

\* A step in which a pending timer ran.
TimerFired == timers' # timers /\ timers' \subseteq timers

Idle == threshold = 0 /\ ~isPlaying

Accumulating == 0 < threshold /\ threshold < DelayThreshold /\ ~isPlaying

Playing == threshold >= DelayThreshold /\ isPlaying

InOneState ==
    \/ Idle /\ ~Accumulating /\ ~Playing
    \/ ~Idle /\ Accumulating /\ ~Playing
    \/ ~Idle /\ ~Accumulating /\ Playing

\* C1: playback is never started at a qualifying event whose cumulative
\* elapsed time, from the first event of the burst to this event, is still
\* below assistanceDelay * 1000.
C1_StartOnlyAfterDelay ==
    (step = "undoChanged" /\ Issued("start")) => now - burstStart >= DelayThreshold

\* C2 as stated: with assistanceDelay = 0.8 and qualifying events at 0, 400 and
\* 900 ms, threshold is 0, 400, 900 after them and playback starts at the third.
C2_Original ==
    /\ scen.n = 1 => (scen.th = 0 /\ ~scen.pl)
    /\ scen.n = 2 => (scen.th = 400 /\ ~scen.pl)
    /\ scen.n = 3 => (scen.th = 900 /\ scen.pl)

\* C2 as amended: in that scenario the stop-timer runs between the events
\* (200 ms after each), so every event is the first sample of a new burst:
\* threshold is 0 after each of the three and playback is not started.
C2_Amended ==
    scen.n \in 1..3 => (scen.th = 0 /\ ~scen.pl)

C2_Witness == scen.n = 3

\* C3: an undoPressed whose undo left document.version unchanged ends with
\* threshold = 0, last = 0 and isPlaying = FALSE, and has commanded the sink
\* to stop if playback was active, whatever the state before.
C3_NotChangedResets ==
    [][NotChangedResume =>
         /\ threshold' = 0
         /\ last' = 0
         /\ ~isPlaying'
         /\ isPlaying => (Issued("stop")' /\ sinkState' = "stopped")]_vars

C3_Witness == step = "undoNotChanged" /\ Issued("kill") /\ threshold = 0

\* C4: an armed stop-timer leaves the set of pending timers only by running or
\* by being cancelled in a qualifying event that arms the next one; when it
\* runs the system is idle (isPlaying = FALSE, threshold = 0, last = 0, sink
\* commanded to stop); and while a stop-timer is pending, it runs unless a
\* further qualifying event arrives.
C4_StopTimer ==
    /\ [][TimerFired =>
            (~isPlaying' /\ threshold' = 0 /\ last' = 0 /\ Issued("stop")')]_vars
    /\ [][(\E tm \in timers : tm \notin timers') =>
            \/ TimerFired
            \/ /\ ChangedResume
               /\ \E tm \in timers' : tm.due = now + StopDelay]_vars
    /\ (timers # {} /\ step # "undoChanged")
          ~> \/ step = "stopTimer" /\ ~isPlaying /\ threshold = 0 /\ last = 0
             \/ step = "undoChanged"

C4_Witness == step = "stopTimer" /\ Issued("kill") /\ ~isPlaying /\ threshold = 0

\* C5: a start command is issued only in a step that takes isPlaying from
\* FALSE to TRUE, and never while the sink's last command was a start; a stop
\* issued with no player handle ends no process; kill is never called on a
\* null handle.
C5_StartStop ==
    /\ [][Issued("start")' =>
            (~isPlaying /\ isPlaying' /\ sinkState # "started")]_vars
    /\ [][(Issued("stop")' /\ audio = Null) =>
            (procs' = procs /\ ~Issued("kill")')]_vars
    /\ [][~killError']_vars

C5_Witness ==
    /\ step = "undoChanged" /\ Issued("start")
    /\ isPlaying /\ Cardinality(procs) = 1

\* C6: a qualifying event processed with last = 0 adds nothing to threshold,
\* and leaves isPlaying FALSE unless assistanceDelay <= 0, when it starts
\* playback.
C6_FirstSample ==
    [][(ChangedResume /\ last = 0) =>
         /\ threshold' = threshold
         /\ isPlaying' <=> DelayThreshold <= 0
         /\ Issued("start")' <=> DelayThreshold <= 0]_vars

C6_Witness ==
    /\ step = "undoChanged" /\ burstStart = now
    /\ now >= TickMs + 2 * StopDelay
    /\ threshold = 0 /\ ~isPlaying

\* C7 as stated: in every reachable state the accumulator is in exactly one of
\* IDLE, ACCUMULATING and PLAYING, and isPlaying holds exactly when
\* threshold >= assistanceDelay * 1000.
C7_Original ==
    /\ InOneState
    /\ isPlaying <=> threshold >= DelayThreshold

\* C7 as amended: the accumulator starts in IDLE, and every step that leaves
\* assistanceDelay as it was keeps it in exactly one of the three states.
C7_Amended ==
    /\ InOneState
    /\ [][(assistanceDelay' = assistanceDelay /\ InOneState) => InOneState']_vars

C7_Witness == step = "stopTimer" /\ Issued("kill") /\ Idle /\ DelayThreshold > 0

\* C8: isPlaying implies that the sink's last command was a start.
C8_PlayingImpliesStarted == isPlaying => sinkState = "started"

\* C9: at most one stop-timer is pending.
C9_OneTimer == Cardinality(timers) <= 1

C9_Witness == step = "undoChanged" /\ threshold > 0 /\ Cardinality(timers) = 1

\* C10: threshold is never negative.
C10_ThresholdNonNegative == threshold >= 0

C10_Witness == step = "undoChanged" /\ threshold > DelayThreshold /\ DelayThreshold > 0

\* C11: when the player's completion callback reports an error, the user is
\* shown an error message and isPlaying is FALSE afterwards.
C11_PlaybackFailureResets ==
    (step = "playerExit" /\ message = "error") => ~isPlaying

\* C12: in every reachable state the in-memory assistanceDelay is within
\* [0, 5] seconds and the in-memory volume within [0, 1], whether the value
\* came from setVolume / setDelay or from a configuration-change notification.
C12_SettingsInRange ==
    /\ 0 <= assistanceDelay /\ assistanceDelay <= MaxDelaySetting
    /\ 0 <= volume /\ volume <= MaxVolume

\* The number v brought into [0, hi].
Within(v, hi) == IF v < 0 THEN 0 ELSE IF v > hi THEN hi ELSE v

\* C13: after setVolume with a numeric input v the stored and the in-memory
\* volume are min(1, max(0, v)), and after setDelay with a numeric input d the
\* stored and the in-memory delay are min(5, max(0, d)): volume -1 gives 0,
\* 2 gives 1, 0.5 stays; delay -1 gives 0, 10 gives 5, 0.3 stays.
C13_ClampStored ==
    /\ (step = "setVolume" /\ entered # Undefined /\ ~isNaN(parseFloat(entered)))
          => /\ config.volume = Within(parseFloat(entered).val, 1000)
             /\ volume = config.volume
    /\ (step = "setDelay" /\ entered # Undefined /\ ~isNaN(parseFloat(entered)))
          => /\ config.assistanceDelay = Within(parseFloat(entered).val, 5000)
             /\ assistanceDelay = config.assistanceDelay
    /\ (step = "setVolume" /\ entered = "-1") => config.volume = 0
    /\ (step = "setVolume" /\ entered = "2") => config.volume = 1000
    /\ (step = "setVolume" /\ entered = "0.5") => config.volume = 500
    /\ (step = "setDelay" /\ entered = "-1") => config.assistanceDelay = 0
    /\ (step = "setDelay" /\ entered = "10") => config.assistanceDelay = 5000
    /\ (step = "setDelay" /\ entered = "0.3") => config.assistanceDelay = 300

C13_Witness ==
    /\ step = "setDelay" /\ entered = "10"
    /\ assistanceDelay = 5000
    /\ volume = 0

\* C14: setDelay or setVolume with the non-numeric text "abc" shows an error
\* message and leaves the stored and in-memory delay and volume, threshold,
\* last, isPlaying, the player and the stop-timer as they were.
C14_InvalidInputNoChange ==
    [][((step' = "setDelay" \/ step' = "setVolume") /\ entered' = "abc") =>
         /\ message' = "error"
         /\ UNCHANGED <<config, volume, assistanceDelay, threshold, last, isPlaying,
                        audio, procs, endSongTimeout, timers>>]_vars

C14_Witness ==
    /\ step = "setVolume" /\ entered = "abc" /\ message = "error"
    /\ last # 0 /\ timers # {}

\* C16: undoPressed with no active editor requests no undo from the host,
\* issues no command to the audio sink, shows no message, and leaves
\* threshold, last, isPlaying, the document and the pending stop-timer as they
\* were.
C16_NoEditorNoOp ==
    [][step' = "undoNoEditor" =>
         /\ inflight' = inflight
         /\ issued' = <<>>
         /\ message' = "none"
         /\ UNCHANGED <<threshold, last, isPlaying, audio, procs, endSongTimeout,
                        timers, version, history, volume, assistanceDelay, config>>]_vars

C16_Witness ==
    /\ step = "undoNoEditor"
    /\ last # 0 /\ timers # {} /\ endSongTimeout # Null
    /\ inflight # <<>>

\* C15: in the state deactivate leaves, the sink has been commanded to stop if
\* playback was active, isPlaying = FALSE, threshold = 0, last = 0, and no
\* stop-timer is pending.
C15_DeactivateResets ==
    step = "deactivate" =>
        /\ sinkState = "stopped"
        /\ ~isPlaying /\ threshold = 0 /\ last = 0
        /\ timers = {}

\* C17: after a qualifying event last is the time of that event, and
\* threshold is the time between the first qualifying event of the burst and
\* this one (the sum of the gaps between consecutive events).
C17_ElapsedSinceLastEvent ==
    step = "undoChanged" => (last = now /\ threshold = now - burstStart)

\* C18: while an undoPressed invocation is between its capture of
\* document.version and its update of the accumulator, no stop-timer callback
\* runs and no other undoPressed invocation starts.
C18_HandlerAtomic ==
    [][inflight # <<>> => (~TimerFired /\ Len(inflight') <= Len(inflight))]_vars

\* C19: the continuation of an undoPressed invocation takes the
\* documentChanged branch exactly when the undo command of that invocation
\* changed the document.
C19_OwnUndoClassifies ==
    [][Len(inflight') < Len(inflight) =>
         (step' = "undoChanged" <=> Head(inflight).ownChanged)]_vars

\* Pressure is retained or playback is on.
Retained == threshold > 0 \/ last # 0 \/ isPlaying

\* C20: before deactivation, whenever threshold > 0 or last # 0 or isPlaying,
\* a stop-timer is pending; and from such a state the accumulator comes to
\* rest (threshold = 0, last = 0, not playing) unless a further qualifying
\* undo event arrives.
C20_RetainedImpliesTimer ==
    /\ [](active /\ Retained => timers # {})
    /\ (active /\ Retained /\ step # "undoChanged")
          ~> (~Retained \/ step = "undoChanged")

C20_Witness ==
    /\ active /\ isPlaying /\ threshold > 0 /\ step = "playerExit"
    /\ \E tm \in timers : tm.due = now

====
